---- MODULE Spec2Model ----
(***************************************************************************)
(* Model of the rag_pdf_agent retrieval-and-grounding pipeline:            *)
(*   ingest.py     PDFIngestor   (page extraction, overlapping chunking)   *)
(*   retriever.py  VectorRetriever (build / load / save / retrieve)        *)
(*   chat.py       RAGChatAgent  (rewrite, retrieve, answer, history)      *)
(* Strings are sequences of one-character strings, so that strip(),        *)
(* split(), lower() and slicing are computed as Python computes them.      *)
(***************************************************************************)
EXTENDS Integers, Sequences, FiniteSets, TLC

VARIABLES
    \* ---- PDFIngestor (ingest.py) ----
    chunk_size,      \* self.chunk_size
    chunk_overlap,   \* self.chunk_overlap
    ing_pc,          \* position of the ingest call: idle / pages / loop / done
    caller,          \* who called chunk_text: "ingest_pdf" or "direct"
    pages,           \* ingest_pdf: pages returned by extract_text_from_pdf
    page_i,          \* ingest_pdf: 1-based position of the for loop in pages
    all_chunks,      \* ingest_pdf: all_chunks
    chunk_id,        \* ingest_pdf: chunk_id (the counter carried across pages)
    text,            \* chunk_text: text
    page_number,     \* chunk_text: page_number
    start_chunk_id,  \* chunk_text: start_chunk_id
    ct_chunks,       \* chunk_text: chunks
    ct_chunk_id,     \* chunk_text: chunk_id
    start,           \* chunk_text: start
    windows,         \* history: window start of every chunk in ct_chunks
    iters,           \* history: iterations of the while loop run so far
    \* ---- VectorRetriever (retriever.py) ----
    index,           \* self.index: None, or the stored vectors in order
    chunks,          \* self.chunks
    disk,            \* the index directory: faiss.index and chunks.pkl
    everBuilt,       \* history: a build_index or load_index call has completed
    rop,             \* observation of the last retriever call
    \* ---- RAGChatAgent (chat.py) ----
    api_key,         \* self.api_key: whether a key was given ("None" if not)
    genInitFailed,   \* history: the generator raised while being set up
    fallback_mode,   \* self.fallback_mode
    model,           \* self.model
    top_k,           \* self.top_k
    conversation_history,  \* self.conversation_history
    call,            \* observation of the last agent call
    snapshot,        \* the list the caller holds from its last get_history()
    snapAliased,     \* whether that list is the object self.conversation_history
    \* ---- module-level functions (prompt.py, validate.py, PDFChunk) ----
    fn_call,         \* the function applied last and its arguments
    fn_result,       \* what it returned
    \* ---- build_index and retrieve running as two threads ----
    b_pc,            \* build_index thread: idle / encoding (line 41 done, 57 not)
    r_pc,            \* retrieve thread: idle / searched (line 84 done, loop not)
    r_call,          \* retrieve thread: its arguments and the hits of line 84
    r_obs            \* observation: the vectors and chunks the last retrieve read

ingestVars == <<chunk_size, chunk_overlap, ing_pc, caller, pages, page_i,
                all_chunks, chunk_id, text, page_number, start_chunk_id,
                ct_chunks, ct_chunk_id, start, windows, iters>>
retrieverVars == <<index, chunks, disk, everBuilt, rop>>
agentVars == <<api_key, genInitFailed, fallback_mode, model, top_k, conversation_history,
               call, snapshot, snapAliased>>
fnVars == <<fn_call, fn_result>>
threadVars == <<b_pc, r_pc, r_call, r_obs>>
vars == <<ingestVars, retrieverVars, agentVars, fnVars, threadVars>>

(***************************************************************************)
(* Bounds of the model.                                                    *)
(***************************************************************************)
MaxLen == 3        \* longest text of a direct chunk_text call, in characters
MaxPageLen == 2    \* longest page text of a document, in characters
MaxPages == 2      \* most pages of one document
MaxSize == 2       \* largest chunk_size / chunk_overlap tried
MaxStartId == 1    \* largest start_chunk_id of a direct chunk_text call
\* Cap on the while-loop iterations of one chunk_text call that the model
\* follows: one more than a loop with a positive step can take.
IterCap(t) == Len(t) + 1

(***************************************************************************)
(* Python string primitives.                                               *)
(***************************************************************************)
Min(a, b) == IF a < b THEN a ELSE b
Max(a, b) == IF a > b THEN a ELSE b

Whitespace == {" ", "\t", "\n"}

\* s[lo:hi] with Python's clamping of negative and out-of-range bounds
\* (lo, hi are 0-based offsets).
PySlice(s, lo, hi) ==
    LET n == Len(s)
        l == IF lo < 0 THEN Max(lo + n, 0) ELSE Min(lo, n)
        h == IF hi < 0 THEN Max(hi + n, 0) ELSE Min(hi, n)
    IN  IF l < h THEN SubSeq(s, l + 1, h) ELSE <<>>

\* str.strip(): drop leading and trailing whitespace.
Strip(s) ==
    LET keep == {i \in 1..Len(s) : s[i] \notin Whitespace}
    IN  IF keep = {} THEN <<>>
        ELSE LET first == CHOOSE i \in keep : \A j \in keep : i <= j
                 last == CHOOSE i \in keep : \A j \in keep : j <= i
             IN  SubSeq(s, first, last)

(***************************************************************************)
(* ingest.py                                                               *)
(***************************************************************************)
DefaultChunkSize == 2000
DefaultChunkOverlap == 400

PDFChunk(t, p, c) == [text |-> t, page_number |-> p, chunk_id |-> c]

Alphabet == {"a", " "}
Texts == UNION {[1..n -> Alphabet] : n \in 0..MaxLen}
PageTexts == {t \in Texts : Len(t) <= MaxPageLen}
RawDocs == UNION {[1..n -> PageTexts] : n \in 0..MaxPages}

\* extract_text_from_pdf: pages numbered from 1, pages without text dropped.
RECURSIVE ExtractPages(_, _)
ExtractPages(raw, page_num) ==
    IF page_num > Len(raw) THEN <<>>
    ELSE LET rest == ExtractPages(raw, page_num + 1)
         IN  IF raw[page_num] # <<>> /\ Strip(raw[page_num]) # <<>>
             THEN <<[page_number |-> page_num, text |-> raw[page_num]]>> \o rest
             ELSE rest

extract_text_from_pdf(raw) == ExtractPages(raw, 1)

\* Mutant of WindowStep: the window advances by chunk_size, the overlap
\* is not taken off.
WindowStep_IgnoresOverlap(size, overlap) == size

\* Mutant of WindowStep: the step overshoots by one character.
WindowStep_Overshoots(size, overlap) == size - overlap + 1

\* The forward step of the window: start += (chunk_size - chunk_overlap).
WindowStep(size, overlap) == size - overlap

\* Mutant of NextChunkId: a dropped window consumes an id too.
NextChunkId_Always(id, added) == id + 1

\* chunk_text: chunk_id += 1 only for a window that was added.
NextChunkId(id, added) == IF added THEN id + 1 ELSE id

\* PDFIngestor.__init__ stores what it is given.
IngestorInit(size, overlap) ==
    /\ chunk_size = size
    /\ chunk_overlap = overlap

IngestIdle ==
    /\ ing_pc = "idle"
    /\ caller = "none"
    /\ pages = <<>>
    /\ page_i = 1
    /\ all_chunks = <<>>
    /\ chunk_id = 0
    /\ text = <<>>
    /\ page_number = 0
    /\ start_chunk_id = 0
    /\ ct_chunks = <<>>
    /\ ct_chunk_id = 0
    /\ start = 0
    /\ windows = <<>>
    /\ iters = 0

\* Entry of chunk_text: chunks = [], chunk_id = start_chunk_id, start = 0.
EnterChunkText(t, p, sid) ==
    /\ text' = t
    /\ page_number' = p
    /\ start_chunk_id' = sid
    /\ ct_chunks' = <<>>
    /\ ct_chunk_id' = sid
    /\ start' = 0
    /\ windows' = <<>>
    /\ iters' = 0

\* ingest_pdf up to the for loop.
IngestPdf(raw) ==
    /\ ing_pc = "idle"
    /\ pages' = extract_text_from_pdf(raw)
    /\ all_chunks' = <<>>
    /\ chunk_id' = 0
    /\ page_i' = 1
    /\ caller' = "ingest_pdf"
    /\ ing_pc' = "pages"
    /\ UNCHANGED <<chunk_size, chunk_overlap, text, page_number, start_chunk_id,
                   ct_chunks, ct_chunk_id, start, windows, iters>>

\* ingest_pdf: the for loop calls chunk_text on the next page.
IngestPage ==
    /\ ing_pc = "pages"
    /\ page_i <= Len(pages)
    /\ EnterChunkText(pages[page_i].text, pages[page_i].page_number, chunk_id)
    /\ ing_pc' = "loop"
    /\ UNCHANGED <<chunk_size, chunk_overlap, caller, pages, page_i, all_chunks,
                   chunk_id>>

\* A caller other than ingest_pdf calls chunk_text.
ChunkTextDirect(t, p, sid) ==
    /\ ing_pc = "idle"
    /\ EnterChunkText(t, p, sid)
    /\ caller' = "direct"
    /\ ing_pc' = "loop"
    /\ UNCHANGED <<chunk_size, chunk_overlap, pages, page_i, all_chunks, chunk_id>>

\* One iteration of chunk_text's while loop.
ChunkTextStep ==
    /\ ing_pc = "loop"
    /\ start < Len(text)
    /\ iters < IterCap(text)
    /\ LET end == start + chunk_size
           piece == PySlice(text, start, end)
       IN  IF Strip(piece) # <<>>
           THEN /\ ct_chunks' = Append(ct_chunks,
                                       PDFChunk(Strip(piece), page_number, ct_chunk_id))
                /\ ct_chunk_id' = NextChunkId(ct_chunk_id, TRUE)
                /\ windows' = Append(windows, start)
           ELSE /\ ct_chunk_id' = NextChunkId(ct_chunk_id, FALSE)
                /\ UNCHANGED <<ct_chunks, windows>>
    /\ start' = start + WindowStep(chunk_size, chunk_overlap)
    /\ iters' = iters + 1
    /\ UNCHANGED <<chunk_size, chunk_overlap, ing_pc, caller, pages, page_i,
                   all_chunks, chunk_id, text, page_number, start_chunk_id>>

\* chunk_text returns; in ingest_pdf the page's chunks are appended and the
\* counter moves on by their number.
ChunkTextReturn ==
    /\ ing_pc = "loop"
    /\ ~(start < Len(text))
    /\ IF caller = "ingest_pdf"
       THEN /\ all_chunks' = all_chunks \o ct_chunks
            /\ chunk_id' = chunk_id + Len(ct_chunks)
            /\ page_i' = page_i + 1
            /\ ing_pc' = "pages"
       ELSE /\ ing_pc' = "done"
            /\ UNCHANGED <<all_chunks, chunk_id, page_i>>
    /\ UNCHANGED <<chunk_size, chunk_overlap, caller, pages, text, page_number,
                   start_chunk_id, ct_chunks, ct_chunk_id, start, windows, iters>>

\* ingest_pdf returns all_chunks.
IngestReturn ==
    /\ ing_pc = "pages"
    /\ page_i > Len(pages)
    /\ ing_pc' = "done"
    /\ UNCHANGED <<chunk_size, chunk_overlap, caller, pages, page_i, all_chunks,
                   chunk_id, text, page_number, start_chunk_id, ct_chunks,
                   ct_chunk_id, start, windows, iters>>

(***************************************************************************)
(* retriever.py                                                            *)
(***************************************************************************)
MaxChunks == 2     \* most chunks handed to one build_index call
MaxTopK == 3       \* largest top_k of a retrieve call

\* The chunk lists handed to build_index: the first n chunks of a document
\* whose chunk texts alternate, starting with either text.
ChunkTextA == <<"a">>
ChunkTextB == <<"b">>
DocChunks(first, other, n) ==
    [i \in 1..n |-> PDFChunk(IF i % 2 = 1 THEN first ELSE other, 1, i - 1)]
ChunkLists ==
    {DocChunks(ChunkTextA, ChunkTextB, n) : n \in 0..MaxChunks}
    \cup {DocChunks(ChunkTextB, ChunkTextA, n) : n \in 0..MaxChunks}

\* The embedder followed by faiss.normalize_L2: a deterministic map from a
\* text to a unit vector, here of dimension one (1 or -1).
Embed(t) == IF t # <<>> /\ t[1] = "a" THEN 1 ELSE -1

\* Inner product of two unit vectors (cosine similarity).
InnerProduct(u, v) == u * v

\* self.index is None, or an IndexFlatIP holding vectors in insertion order.
NoIndex == [present |-> FALSE, vectors |-> <<>>]
FlatIndex(vs) == [present |-> TRUE, vectors |-> vs]
ntotal(idx) == Len(idx.vectors)

\* A file of the index directory: absent, or holding content.
Absent == [exists |-> FALSE, content |-> <<>>]
File(c) == [exists |-> TRUE, content |-> c]

\* The label and score faiss reports for a neighbour that does not exist.
PadLabel == -1
PadScore == -99

\* index.search(q, k): exactly k (label, score) pairs, best inner product
\* first, equal scores in insertion order, missing neighbours padded.
RECURSIVE SearchFrom(_, _, _, _)
SearchFrom(vs, q, rem, k) ==
    IF k = 0 THEN <<>>
    ELSE IF rem = {}
         THEN <<[idx |-> PadLabel, score |-> PadScore]>> \o SearchFrom(vs, q, rem, k - 1)
         ELSE LET best == CHOOSE i \in rem : \A j \in rem :
                              \/ InnerProduct(q, vs[i]) > InnerProduct(q, vs[j])
                              \/ /\ InnerProduct(q, vs[i]) = InnerProduct(q, vs[j])
                                 /\ i <= j
              IN  <<[idx |-> best - 1, score |-> InnerProduct(q, vs[best])]>>
                  \o SearchFrom(vs, q, rem \ {best}, k - 1)

Search(idx, q, k) == SearchFrom(idx.vectors, q, 1..ntotal(idx), k)

\* The guard of retrieve's result loop: if idx < len(self.chunks).
HitAccepted(idx, chs) == idx < Len(chs)

\* Python list indexing chs[idx]: a negative idx counts from the end;
\* out of range raises IndexError.
PyIndexOk(chs, idx) ==
    IF idx < 0 THEN idx + Len(chs) >= 0 ELSE idx < Len(chs)
PyIndex(chs, idx) ==
    IF idx < 0 THEN chs[idx + Len(chs) + 1] ELSE chs[idx + 1]

\* retrieve's result loop over zip(indices[0], scores[0]).
RECURSIVE CollectHits(_, _, _)
CollectHits(hits, chs, i) ==
    IF i > Len(hits) THEN [outcome |-> "ok", results |-> <<>>]
    ELSE IF ~HitAccepted(hits[i].idx, chs) THEN CollectHits(hits, chs, i + 1)
    ELSE IF ~PyIndexOk(chs, hits[i].idx)
         THEN [outcome |-> "IndexError", results |-> <<>>]
         ELSE LET rest == CollectHits(hits, chs, i + 1)
              IN  IF rest.outcome # "ok" THEN rest
                  ELSE [outcome |-> "ok",
                        results |-> <<[chunk |-> PyIndex(chs, hits[i].idx),
                                       score |-> hits[i].score]>> \o rest.results]

\* VectorRetriever.retrieve as a function of the retriever's state.
RetrieveResult(idx, chs, query, k, embedOk) ==
    IF ~idx.present THEN [outcome |-> "NotBuilt", results |-> <<>>]
    ELSE IF ~embedOk THEN [outcome |-> "EmbedError", results |-> <<>>]
    ELSE CollectHits(Search(idx, Embed(query), k), chs, 1)

Observed(op, outcome, k, results) ==
    [op |-> op, outcome |-> outcome, top_k |-> k, results |-> results]

\* The vectors build_index stores for a chunk list: one per chunk, in order.
EmbedAll(cs) == [i \in 1..Len(cs) |-> Embed(cs[i].text)]

\* VectorRetriever.__init__.
RetrieverInit ==
    /\ index = NoIndex
    /\ chunks = <<>>
    /\ everBuilt = FALSE
    /\ rop = Observed("init", "ok", 0, <<>>)

\* build_index(cs); embedOk: whether embedding_model.encode returns.
BuildIndex(cs, embedOk) ==
    /\ IF cs = <<>>
       THEN /\ rop' = Observed("build_index", "ValueError", 0, <<>>)
            /\ UNCHANGED <<index, chunks, everBuilt>>
       ELSE /\ chunks' = cs
            /\ IF embedOk
               THEN /\ index' = FlatIndex(EmbedAll(cs))
                    /\ everBuilt' = TRUE
                    /\ rop' = Observed("build_index", "ok", 0, <<>>)
               ELSE /\ rop' = Observed("build_index", "EmbedError", 0, <<>>)
                    /\ UNCHANGED <<index, everBuilt>>
    /\ UNCHANGED disk

\* retrieve(query, k).
Retrieve(query, k, embedOk) ==
    /\ LET r == RetrieveResult(index, chunks, query, k, embedOk)
       IN  rop' = Observed("retrieve", r.outcome, k, r.results)
    /\ UNCHANGED <<index, chunks, disk, everBuilt>>

\* save_index(index_dir): faiss.write_index rejects None before any file
\* is written.
SaveIndex ==
    /\ IF ~index.present
       THEN /\ rop' = Observed("save_index", "TypeError", 0, <<>>)
            /\ UNCHANGED disk
       ELSE /\ disk' = [index |-> File(index.vectors), chunks |-> File(chunks)]
            /\ rop' = Observed("save_index", "ok", 0, <<>>)
    /\ UNCHANGED <<index, chunks, everBuilt>>

\* load_index(index_dir).
LoadIndex ==
    /\ IF ~disk.index.exists
       THEN /\ rop' = Observed("load_index", "FileNotFoundError", 0, <<>>)
            /\ UNCHANGED <<index, chunks, everBuilt>>
       ELSE /\ index' = FlatIndex(disk.index.content)
            /\ IF ~disk.chunks.exists
               THEN /\ rop' = Observed("load_index", "FileNotFoundError", 0, <<>>)
                    /\ UNCHANGED <<chunks, everBuilt>>
               ELSE /\ chunks' = disk.chunks.content
                    /\ everBuilt' = TRUE
                    /\ rop' = Observed("load_index", "ok", 0, <<>>)
    /\ UNCHANGED disk

\* build_index and retrieve as two threads over one retriever, each
\* followed through the statements that read or write self.chunks and
\* self.index. The embedder returns in both.
\* build_index lines 38-41: the empty-list check and self.chunks = chunks.
BuildStart(cs) ==
    /\ b_pc = "idle"
    /\ IF cs = <<>>
       THEN /\ rop' = Observed("build_index", "ValueError", 0, <<>>)
            /\ UNCHANGED <<chunks, b_pc>>
       ELSE /\ chunks' = cs
            /\ b_pc' = "encoding"
            /\ UNCHANGED rop
    /\ UNCHANGED <<index, disk, everBuilt, r_pc, r_call, r_obs>>

\* build_index lines 44-57: the embeddings are computed and self.index is
\* bound to a new, still empty, IndexFlatIP.
BuildCreate ==
    /\ b_pc = "encoding"
    /\ index' = FlatIndex(<<>>)
    /\ b_pc' = "created"
    /\ UNCHANGED <<chunks, disk, everBuilt, rop, r_pc, r_call, r_obs>>

\* build_index line 58: the embeddings are added to self.index.
BuildAdd ==
    /\ b_pc = "created"
    /\ index' = FlatIndex(EmbedAll(chunks))
    /\ everBuilt' = TRUE
    /\ rop' = Observed("build_index", "ok", 0, <<>>)
    /\ b_pc' = "idle"
    /\ UNCHANGED <<chunks, disk, r_pc, r_call, r_obs>>

\* retrieve lines 73-84: the None check, the query embedding and
\* self.index.search.
RetrieveSearch(query, k) ==
    /\ r_pc = "idle"
    /\ IF ~index.present
       THEN /\ rop' = Observed("retrieve", "NotBuilt", k, <<>>)
            /\ r_obs' = [op |-> "retrieve", outcome |-> "NotBuilt", vectors |-> <<>>,
                         chunks |-> <<>>, results |-> <<>>]
            /\ UNCHANGED <<r_pc, r_call>>
       ELSE /\ r_call' = [op |-> "retrieve", query |-> query, top_k |-> k,
                          vectors |-> index.vectors,
                          hits |-> Search(index, Embed(query), k)]
            /\ r_pc' = "searched"
            /\ UNCHANGED <<rop, r_obs>>
    /\ UNCHANGED <<index, chunks, disk, everBuilt, b_pc>>

\* retrieve lines 87-92: the result loop, which reads self.chunks.
RetrieveCollect ==
    /\ r_pc = "searched"
    /\ LET r == CollectHits(r_call.hits, chunks, 1)
       IN  /\ rop' = Observed("retrieve", r.outcome, r_call.top_k, r.results)
           /\ r_obs' = [op |-> "retrieve", outcome |-> r.outcome,
                        vectors |-> r_call.vectors, chunks |-> chunks,
                        results |-> r.results]
    /\ r_pc' = "idle"
    /\ UNCHANGED <<index, chunks, disk, everBuilt, b_pc, r_call>>

\* What an index directory may hold when the retriever is created: nothing,
\* what an earlier save_index of a built retriever wrote, or that with one
\* of the two files missing.
DiskStates ==
    {[index |-> Absent, chunks |-> Absent]}
    \cup {[index |-> File(EmbedAll(cs)), chunks |-> File(cs)] : cs \in ChunkLists \ {<<>>}}
    \cup {[index |-> File(EmbedAll(cs)), chunks |-> Absent] : cs \in ChunkLists \ {<<>>}}
    \cup {[index |-> Absent, chunks |-> File(cs)] : cs \in ChunkLists \ {<<>>}}

(***************************************************************************)
(* chat.py                                                                 *)
(***************************************************************************)
MaxHist == 2       \* most turns the history is let grow to

\* str.lower() on ASCII text.
UpperLetters ==
    <<"A", "B", "C", "D", "E", "F", "G", "H", "I", "J", "K", "L", "M", "N",
      "O", "P", "Q", "R", "S", "T", "U", "V", "W", "X", "Y", "Z">>
LowerLetters ==
    <<"a", "b", "c", "d", "e", "f", "g", "h", "i", "j", "k", "l", "m", "n",
      "o", "p", "q", "r", "s", "t", "u", "v", "w", "x", "y", "z">>
LowerChar(c) ==
    IF \E i \in 1..Len(UpperLetters) : UpperLetters[i] = c
    THEN LowerLetters[CHOOSE i \in 1..Len(UpperLetters) : UpperLetters[i] = c]
    ELSE c
Lower(s) == [i \in 1..Len(s) |-> LowerChar(s[i])]

\* str.split(): the maximal runs of non-whitespace characters, in order.
RECURSIVE SplitFrom(_, _, _)
SplitFrom(s, i, cur) ==
    IF i > Len(s) THEN (IF cur = <<>> THEN <<>> ELSE <<cur>>)
    ELSE IF s[i] \in Whitespace
         THEN (IF cur = <<>> THEN <<>> ELSE <<cur>>) \o SplitFrom(s, i + 1, <<>>)
         ELSE SplitFrom(s, i + 1, Append(cur, s[i]))
Split(s) == SplitFrom(s, 1, <<>>)

ShortQueryTokens == 5
pronouns == {<<"i","t">>, <<"t","h","e","y">>, <<"t","h","e","m">>,
             <<"t","h","i","s">>, <<"t","h","a","t">>, <<"t","h","e","s","e">>,
             <<"t","h","o","s","e">>, <<"h","e">>, <<"s","h","e">>}

\* sub in s.
Contains(s, sub) ==
    \E i \in 0..(Len(s) - Len(sub)) : SubSeq(s, i + 1, i + Len(sub)) = sub

\* Mutant of needs_rewrite: a pronoun is looked for anywhere in the query,
\* not among its whitespace-separated words.
needs_rewrite_Substring(query) ==
    \/ Len(Split(query)) < ShortQueryTokens
    \/ \E p \in pronouns : Contains(Lower(query), p)

\* The heuristic of _rewrite_query_if_needed.
needs_rewrite(query) ==
    LET words == Split(query)
        lowered == Split(Lower(query))
    IN  \/ Len(words) < ShortQueryTokens
        \/ \E i \in 1..Len(lowered) : lowered[i] \in pronouns

\* The queries a user types: one word; five words none of which is a
\* pronoun, the last one holding the letters of "it"; five words ending in
\* the pronoun "It".
QShort == <<"a">>
QLong == <<"a"," ","a"," ","a"," ","a"," ","i","t","a">>
QPronoun == <<"b"," ","b"," ","b"," ","b"," ","I","t">>
Queries == {QShort, QLong, QPronoun}

\* One generate_content call: it raises, or returns a response with a text.
GenRaises == [ok |-> FALSE, text |-> <<>>]
GenReturns(t) == [ok |-> TRUE, text |-> t]
GenTexts == {<<" ","b"," ">>, <<"a">>}
GenOutcomes == {GenRaises} \cup {GenReturns(t) : t \in GenTexts}

\* An answer is a generated text or the fallback rendering.
Generated(t) == [kind |-> "generated", text |-> t, passages |-> <<>>]
NoAnswer == [kind |-> "none", text |-> <<>>, passages |-> <<>>]

FallbackPreview == 500

\* _generate_fallback_response: the notice for an empty result, else one
\* labelled passage per retrieved chunk, in rank order.
FallbackResponse(query, results) ==
    IF results = <<>>
    THEN [kind |-> "fallback_none", text |-> <<>>, passages |-> <<>>]
    ELSE [kind |-> "fallback", text |-> <<>>,
          passages |-> [i \in 1..Len(results) |->
              [rank |-> i,
               page |-> results[i].chunk.page_number,
               score |-> results[i].score,
               text |-> PySlice(results[i].chunk.text, 0, FallbackPreview),
               truncated |-> Len(results[i].chunk.text) > FallbackPreview]]]

\* RAGChatAgent.__init__: fallback_mode and model from the key given and
\* from whether setting the generator up raised.
InitFallbackMode(hasKey, initOk) == (~hasKey) \/ (~initOk)
InitModel(hasKey, initOk) == IF hasKey /\ initOk THEN "GenerativeModel" ELSE "None"

AgentInit(hasKey, initOk, k) ==
    /\ api_key = IF hasKey THEN "key" ELSE "None"
    /\ genInitFailed = (hasKey /\ ~initOk)
    /\ fallback_mode = InitFallbackMode(hasKey, initOk)
    /\ model = InitModel(hasKey, initOk)
    /\ top_k = k
    /\ conversation_history = <<>>
    /\ call = [op |-> "init", outcome |-> "none", error |-> "none", query |-> <<>>,
               standalone |-> <<>>, answer |-> NoAnswer, trace |-> <<>>]
    /\ snapshot = <<>>
    /\ snapAliased = FALSE

\* Mutant of RewriteAttempted: the fallback-mode test is missing.
RewriteAttempted_IgnoresMode(fb, history, query) ==
    history # <<>> /\ needs_rewrite(query)

\* _rewrite_query_if_needed: whether the generator is asked to rewrite.
RewriteAttempted(fb, history, query) ==
    ~(fb \/ history = <<>>) /\ needs_rewrite(query)

\* Mutant of TryRewrite: the generator call is not inside a try block.
TryRewrite_NoExcept(fb, mdl, history, query, rw) ==
    IF ~RewriteAttempted(fb, history, query) THEN [raised |-> FALSE, query |-> query]
    ELSE IF mdl # "None" /\ rw.ok THEN [raised |-> FALSE, query |-> Strip(rw.text)]
    ELSE [raised |-> TRUE, query |-> query]

\* _rewrite_query_if_needed: the query handed to retrieval, and whether an
\* exception leaves the method. The try block holds the whole generator
\* call, so a raise (also the one a model of None causes) gives the query.
TryRewrite(fb, mdl, history, query, rw) ==
    IF ~RewriteAttempted(fb, history, query) THEN [raised |-> FALSE, query |-> query]
    ELSE IF mdl # "None" /\ rw.ok THEN [raised |-> FALSE, query |-> Strip(rw.text)]
    ELSE [raised |-> FALSE, query |-> query]

\* Whether answer_query asks the generator for the answer (Step 4).
AnswerAttempted(fb) == ~fb

\* Steps 4-6 of answer_query: the answer for the retrieved chunks, and
\* whether an exception leaves the try block.
TryAnswer(fb, mdl, query, results, ans) ==
    IF ~AnswerAttempted(fb)
    THEN [raised |-> FALSE, answer |-> FallbackResponse(query, results)]
    ELSE IF mdl # "None" /\ ans.ok
         THEN [raised |-> FALSE, answer |-> Generated(Strip(ans.text))]
         ELSE [raised |-> FALSE, answer |-> FallbackResponse(query, results)]

\* Mutant of FallbackModeAfter: a failed answer call switches the agent
\* into fallback mode for good.
FallbackModeAfter_Sticky(fb, generatorFailed) == fb \/ generatorFailed

\* self.fallback_mode after the except block of Step 6: it is not assigned.
FallbackModeAfter(fb, generatorFailed) == fb

\* Mutant of RecordTurn: the rewritten query is recorded.
RecordTurn_Rewritten(history, user_query, standalone_query, answer) ==
    Append(history, <<standalone_query, answer>>)

\* Step 7 of answer_query: the history after the turn is recorded; the
\* query recorded is user_query, not the rewritten one.
RecordTurn(history, user_query, standalone_query, answer) ==
    Append(history, <<user_query, answer>>)

\* Mutant of AnswerCalls: a failed answer call is tried a second time.
AnswerCalls_Retry(fb, mdl, ans) ==
    IF ~AnswerAttempted(fb) THEN 0
    ELSE IF mdl # "None" /\ ans.ok THEN 1 ELSE 2

\* How many generate_content calls Steps 4-6 make: the call stands in a
\* try block with no loop around it.
AnswerCalls(fb, mdl, ans) == IF AnswerAttempted(fb) THEN 1 ELSE 0

\* Mutant of HistoryAfterRaise: the turn is recorded before retrieval.
HistoryAfterRaise_Recorded(history, user_query) ==
    Append(history, <<user_query, NoAnswer>>)

\* self.conversation_history when retrieve raises in Step 2: the exception
\* leaves answer_query before Step 7, nothing was appended.
HistoryAfterRaise(history, user_query) == history

Raised(user_query, standalone_query, error, trace) ==
    [op |-> "answer_query", outcome |-> "raised", error |-> error,
     query |-> user_query, standalone |-> standalone_query,
     answer |-> NoAnswer, trace |-> trace]

\* answer_query(user_query); rw and ans are what the generator does if it
\* is asked to rewrite and to answer, embedOk whether the embedder returns.
AnswerQuery(user_query, rw, ans, embedOk) ==
    /\ Len(conversation_history) < MaxHist
    /\ LET rewriteCall == RewriteAttempted(fallback_mode, conversation_history, user_query)
           rewrite == TryRewrite(fallback_mode, model, conversation_history, user_query, rw)
           standalone_query == rewrite.query
           r == RetrieveResult(index, chunks, standalone_query, top_k, embedOk)
           answerCall == AnswerAttempted(fallback_mode)
           generatorFailed == answerCall /\ ~(model # "None" /\ ans.ok)
           try == TryAnswer(fallback_mode, model, user_query, r.results, ans)
           answer == try.answer
           rewriteFailed == rewriteCall /\ ~(model # "None" /\ rw.ok)
           t1 == IF rewriteCall
                 THEN <<"generate:rewrite">>
                      \o (IF rewriteFailed THEN <<"rewrite_failed">> ELSE <<>>)
                 ELSE <<>>
           t2 == t1 \o <<"retrieve">>
           t3 == t2 \o [n \in 1..AnswerCalls(fallback_mode, model, ans) |->
                           "generate:answer"]
           t4 == t3 \o (IF answer.kind # "generated" THEN <<"fallback">> ELSE <<>>)
       IN  IF rewrite.raised
           THEN /\ call' = Raised(user_query, user_query, "GeneratorError", t1)
                /\ UNCHANGED <<conversation_history, fallback_mode>>
           ELSE IF r.outcome # "ok"
           THEN /\ call' = Raised(user_query, standalone_query, r.outcome, t2)
                /\ conversation_history' =
                       HistoryAfterRaise(conversation_history, user_query)
                /\ UNCHANGED fallback_mode
           ELSE IF try.raised
           THEN /\ call' = Raised(user_query, standalone_query, "GeneratorError", t3)
                /\ UNCHANGED <<conversation_history, fallback_mode>>
           ELSE /\ fallback_mode' = FallbackModeAfter(fallback_mode, generatorFailed)
                /\ conversation_history' =
                       RecordTurn(conversation_history, user_query,
                                  standalone_query, answer)
                /\ call' = [op |-> "answer_query", outcome |-> "returned",
                            error |-> "none",
                            query |-> user_query, standalone |-> standalone_query,
                            answer |-> answer, trace |-> t4]
    \* list.append changes the list object in place: a caller holding that
    \* very object sees the new turn.
    /\ snapshot' = IF snapAliased THEN conversation_history' ELSE snapshot
    /\ UNCHANGED <<api_key, genInitFailed, model, top_k, snapAliased>>

\* reset_history(): the attribute is bound to a new empty list; a list
\* handed out earlier is a different object from now on.

ResetHistory ==
    /\ conversation_history' = <<>>
    /\ call' = [op |-> "reset_history", outcome |-> "returned", error |-> "none",
                query |-> <<>>,
                standalone |-> <<>>, answer |-> NoAnswer, trace |-> <<>>]
    /\ snapAliased' = FALSE
    /\ UNCHANGED <<api_key, genInitFailed, fallback_mode, model, top_k, snapshot>>

(***************************************************************************)
(* prompt.py and validate.py: the response contract.                       *)
(***************************************************************************)
\* The phrases is_not_found_response looks for.
PhraseNotFound ==
    <<"n", "o", "t", " ", "f", "o", "u", "n", "d", " ", "i", "n", " ", "t",
      "h", "e", " ", "d", "o", "c", "u", "m", "e", "n", "t">>
PhraseNotMentioned ==
    <<"n", "o", "t", " ", "m", "e", "n", "t", "i", "o", "n", "e", "d", " ",
      "i", "n", " ", "t", "h", "e", " ", "d", "o", "c", "u", "m", "e", "n",
      "t">>
PhraseDoesNotContain ==
    <<"d", "o", "e", "s", " ", "n", "o", "t", " ", "c", "o", "n", "t", "a",
      "i", "n">>
PhraseNotAvailable ==
    <<"i", "n", "f", "o", "r", "m", "a", "t", "i", "o", "n", " ", "i", "s",
      " ", "n", "o", "t", " ", "a", "v", "a", "i", "l", "a", "b", "l",
      "e">>
not_found_phrases ==
    <<PhraseNotFound, PhraseNotMentioned, PhraseDoesNotContain, PhraseNotAvailable>>

\* prompt.is_not_found_response(response).
is_not_found_response(response) ==
    LET response_lower == Strip(Lower(response))
    IN  \E i \in 1..Len(not_found_phrases) : Contains(response_lower, not_found_phrases[i])

\* The literals validate_response_format looks for.
AnswerMarker ==
    <<"A", "n", "s", "w", "e", "r", ":">>
CitationsMarker ==
    <<"C", "i", "t", "a", "t", "i", "o", "n", "s", ":">>
EvidenceMarker ==
    <<"E", "v", "i", "d", "e", "n", "c", "e", ":">>
NotFoundLiteral ==
    <<"N", "o", "t", " ", "f", "o", "u", "n", "d", " ", "i", "n", " ", "t",
      "h", "e", " ", "d", "o", "c", "u", "m", "e", "n", "t">>

\* validate.validate_response_format(response): the dict it returns.
validate_response_format(response) ==
    LET has_answer_section == Contains(response, AnswerMarker)
        has_citations_section == Contains(response, CitationsMarker)
        has_evidence_section == Contains(response, EvidenceMarker)
        is_not_found == Contains(response, NotFoundLiteral)
    IN  [has_answer_section |-> has_answer_section,
         has_citations_section |-> has_citations_section,
         has_evidence_section |-> has_evidence_section,
         is_not_found |-> is_not_found,
         valid |-> IF is_not_found THEN TRUE
                   ELSE has_answer_section /\ has_citations_section
                        /\ has_evidence_section]

\* The responses classified: any of the three section lines that are
\* there, in order, followed by one closing sentence.
AnswerLine ==
    <<"A", "n", "s", "w", "e", "r", ":", " ", "x", "\n">>
CitationsLine ==
    <<"C", "i", "t", "a", "t", "i", "o", "n", "s", ":", " ", "y", "\n">>
EvidenceLine ==
    <<"E", "v", "i", "d", "e", "n", "c", "e", ":", " ", "z", "\n">>
ClosingSentences == {
    <<>>,
    <<"N", "o", "t", " ", "f", "o", "u", "n", "d", " ", "i", "n", " ", "t",
      "h", "e", " ", "d", "o", "c", "u", "m", "e", "n", "t", ".">>,
    <<"n", "o", "t", " ", "f", "o", "u", "n", "d", " ", "i", "n", " ", "t",
      "h", "e", " ", "d", "o", "c", "u", "m", "e", "n", "t", ".">>,
    <<"N", "O", "T", " ", "F", "O", "U", "N", "D", " ", "I", "N", " ", "T",
      "H", "E", " ", "D", "O", "C", "U", "M", "E", "N", "T", ".">>,
    <<"I", "t", " ", "i", "s", " ", "N", "o", "t", " ", "M", "e", "n", "t",
      "i", "o", "n", "e", "d", " ", "i", "n", " ", "t", "h", "e", " ", "d",
      "o", "c", "u", "m", "e", "n", "t", ".">>,
    <<"T", "h", "e", " ", "t", "e", "x", "t", " ", "d", "o", "e", "s", " ",
      "n", "o", "t", " ", "c", "o", "n", "t", "a", "i", "n", " ", "i", "t",
      ".">>,
    <<"I", "n", "f", "o", "r", "m", "a", "t", "i", "o", "n", " ", "i", "s",
      " ", "n", "o", "t", " ", "a", "v", "a", "i", "l", "a", "b", "l", "e",
      ".">>,
    <<"N", "o", "t", " ", "f", "o", "u", "n", "d", ".">>}
Responses ==
    {(IF a THEN AnswerLine ELSE <<>>) \o (IF c THEN CitationsLine ELSE <<>>)
        \o (IF e THEN EvidenceLine ELSE <<>>) \o closing :
        a \in BOOLEAN, c \in BOOLEAN, e \in BOOLEAN, closing \in ClosingSentences}

ValidateResponseFormat(response) ==
    /\ fn_call' = [op |-> "validate_response_format", response |-> response]
    /\ fn_result' = validate_response_format(response)

IsNotFoundResponse(response) ==
    /\ fn_call' = [op |-> "is_not_found_response", response |-> response]
    /\ fn_result' = [is_not_found |-> is_not_found_response(response)]

(***************************************************************************)
(* Citations: PDFChunk.get_citation and parse_response_for_citations.      *)
(***************************************************************************)
MaxCitePage == 11  \* largest page_number of a chunk whose citation is rendered
MaxCiteId == 10    \* largest chunk_id of a chunk whose citation is rendered
MaxTokens == 3     \* most citation tokens in one response

\* str(n) for an int n >= 0, as the f-string renders it.
DecimalDigits ==
    <<"0", "1", "2", "3", "4", "5", "6", "7", "8", "9">>
RECURSIVE FormatInt(_)
FormatInt(n) ==
    IF n < 10 THEN <<DecimalDigits[n + 1]>>
    ELSE FormatInt(n \div 10) \o <<DecimalDigits[(n % 10) + 1]>>

\* PDFChunk.get_citation(): f"[p{page_number}:c{chunk_id}]".
get_citation(chunk) ==
    <<"[", "p">> \o FormatInt(chunk.page_number) \o <<":", "c">>
        \o FormatInt(chunk.chunk_id) \o <<"]">>

IsDigit(c) == \E d \in 1..Len(DecimalDigits) : DecimalDigits[d] = c
CharAt(s, i) == IF i >= 1 /\ i <= Len(s) THEN s[i] ELSE ""

\* Mutant of DigitRun: the pattern has \d where it has \d+.
DigitRun_One(s, i) == IF IsDigit(CharAt(s, i)) THEN 1 ELSE 0

\* \d+ at position i: the length of the longest run of digits there (the
\* character the pattern wants next is no digit, so the greedy match is
\* the only one).
RECURSIVE DigitRun(_, _)
DigitRun(s, i) == IF IsDigit(CharAt(s, i)) THEN 1 + DigitRun(s, i + 1) ELSE 0

\* The pattern \[p(\d+):c(\d+)\] tried at position i: whether it matches,
\* its two groups and the position after the match.
MatchAt(s, i) ==
    LET n1 == DigitRun(s, i + 2)
        j == i + 2 + n1
        n2 == DigitRun(s, j + 2)
        k == j + 2 + n2
    IN  IF /\ CharAt(s, i) = "[" /\ CharAt(s, i + 1) = "p"
           /\ n1 >= 1
           /\ CharAt(s, j) = ":" /\ CharAt(s, j + 1) = "c"
           /\ n2 >= 1
           /\ CharAt(s, k) = "]"
        THEN [ok |-> TRUE, page |-> SubSeq(s, i + 2, j - 1),
              chunk |-> SubSeq(s, j + 2, k - 1), next |-> k + 1]
        ELSE [ok |-> FALSE, page |-> <<>>, chunk |-> <<>>, next |-> i + 1]

\* re.findall: the non-overlapping matches, scanning left to right.
RECURSIVE FindAllFrom(_, _)
FindAllFrom(s, i) ==
    IF i > Len(s) THEN <<>>
    ELSE LET m == MatchAt(s, i)
         IN  IF m.ok THEN <<m>> \o FindAllFrom(s, m.next)
             ELSE FindAllFrom(s, i + 1)

\* prompt.parse_response_for_citations(response).
parse_response_for_citations(response) ==
    LET matches == FindAllFrom(response, 1)
    IN  [n \in 1..Len(matches) |->
            <<"p">> \o matches[n].page \o <<":", "c">> \o matches[n].chunk]

\* The chunks cited: every page and id up to the bounds for one token,
\* three chunks (one- and two-digit numbers) for responses of several.
CitedChunks ==
    {PDFChunk(<<"a">>, pg, id) : pg \in 1..MaxCitePage, id \in 0..MaxCiteId}
RepeatedChunks ==
    {PDFChunk(<<"a">>, 1, 0), PDFChunk(<<"a">>, 2, MaxCiteId),
     PDFChunk(<<"a">>, MaxCitePage, 3)}
CitedLists ==
    {<<c>> : c \in CitedChunks}
        \cup UNION {[1..n -> RepeatedChunks] : n \in 2..MaxTokens}
\* What a response has between its tokens: nothing, a comma, or the first
\* two characters of a token.
Separators == {<<>>, <<",", " ">>, <<"[", "p">>}

RECURSIVE RenderCitations(_, _)
RenderCitations(cs, sep) ==
    IF cs = <<>> THEN <<>>
    ELSE get_citation(Head(cs))
            \o (IF Tail(cs) = <<>> THEN <<>> ELSE sep \o RenderCitations(Tail(cs), sep))

\* The tokens of the chunks cs are rendered into one response, and the
\* response is parsed.
ParseRendered(cs, sep) ==
    /\ fn_call' = [op |-> "parse_response_for_citations", chunks |-> cs,
                   response |-> RenderCitations(cs, sep)]
    /\ fn_result' = parse_response_for_citations(RenderCitations(cs, sep))

(***************************************************************************)
(* prompt.py: the two prompt builders. A prompt is the sequence of its     *)
(* pieces: the fixed text of the template (named, not spelled out), and    *)
(* the values the f-string puts in, in the order they appear.              *)
(***************************************************************************)
MaxTurns == 4      \* most turns of a history handed to a prompt builder

Lit(name) == [tag |-> name, text |-> <<>>, answer |-> NoAnswer]
Str(t) == [tag |-> "str", text |-> t, answer |-> NoAnswer]
Msg(a) == [tag |-> "message", text |-> <<>>, answer |-> a]

\* sep.join(parts), each part a sequence of pieces.
RECURSIVE Join(_, _)
Join(sep, parts) ==
    IF parts = <<>> THEN <<>>
    ELSE IF Len(parts) = 1 THEN parts[1]
    ELSE parts[1] \o <<Lit(sep)>> \o Join(sep, Tail(parts))

\* seq[-n:]
PyLast(seq, n) == PySlice(seq, 0 - n, Len(seq))

RewriteWindow == 2
GroundingWindow == 3

\* The two history_parts entries of one turn.
TurnParts(history) ==
    [n \in 1..(2 * Len(history)) |->
        IF n % 2 = 1 THEN <<Lit("User: "), Str(history[(n + 1) \div 2][1])>>
        ELSE <<Lit("Assistant: "), Msg(history[n \div 2][2])>>]

\* Mutant of GroundingTurns: every turn of the history is rendered.
GroundingTurns_All(conversation) == conversation

\* The turns build_grounded_prompt renders: conversation_history[-3:].
GroundingTurns(conversation) == PyLast(conversation, GroundingWindow)

\* The turns rewrite_query_with_history renders: conversation_history[-2:].
RewriteTurns(conversation) == PyLast(conversation, RewriteWindow)

ChunkLabel ==
    <<"[", "C", "H", "U", "N", "K", " ">>
PageLabel ==
    <<"P", "a", "g", "e", " ">>
TextLabel ==
    <<"T", "e", "x", "t", ":", " ">>

\* One entry of context_parts.
ContextPart(i, chunk) ==
    <<Str(ChunkLabel \o FormatInt(i) \o <<"]", " ">> \o get_citation(chunk) \o <<"\n">>
          \o PageLabel \o FormatInt(chunk.page_number) \o <<"\n">>
          \o TextLabel \o chunk.text \o <<"\n">>)>>

\* prompt.build_grounded_prompt(query, retrieved_chunks, conversation_history).
build_grounded_prompt(query, retrieved_chunks, conversation) ==
    LET context == Join("\n---\n",
                        [i \in 1..Len(retrieved_chunks) |->
                            ContextPart(i, retrieved_chunks[i].chunk)])
        history_text ==
            IF conversation = <<>> THEN <<>>
            ELSE <<Lit("\n\nPREVIOUS CONVERSATION:\n")>>
                     \o Join("\n", TurnParts(GroundingTurns(conversation)))
    IN  <<Lit("RETRIEVED DOCUMENT CHUNKS:\n")>> \o context \o <<Lit("\n\n")>>
            \o history_text
            \o <<Lit("\n\nCURRENT USER QUESTION:\n"), Str(query),
                 Lit("\n\nINSTRUCTIONS: ... Your response:")>>

\* prompt.rewrite_query_with_history(query, conversation_history): with no
\* history it returns the query itself.
rewrite_query_with_history(query, conversation) ==
    IF conversation = <<>> THEN <<Str(query)>>
    ELSE <<Lit("Given the conversation history below, ...\n\nCONVERSATION HISTORY:\n")>>
             \o Join("\n", TurnParts(RewriteTurns(conversation)))
             \o <<Lit("\n\nFOLLOW-UP QUESTION:\n"), Str(query),
                  Lit("\n\nINSTRUCTIONS: ... STANDALONE QUESTION:")>>

\* The histories, queries and retrieved chunks the builders are given.
PromptTurns == {<<QShort, Generated(<<"a">>)>>, <<QPronoun, Generated(<<"b">>)>>}
Histories == UNION {[1..n -> PromptTurns] : n \in 0..MaxTurns}
PromptQueries == {QShort, QPronoun}
RetrievedLists == {<<>>, <<[chunk |-> PDFChunk(ChunkTextA, 1, 0), score |-> 1]>>}

BuildGroundedPrompt(query, retrieved_chunks, conversation) ==
    /\ fn_call' = [op |-> "build_grounded_prompt", query |-> query,
                   retrieved_chunks |-> retrieved_chunks, history |-> conversation]
    /\ fn_result' = build_grounded_prompt(query, retrieved_chunks, conversation)

RewriteQueryWithHistory(query, conversation) ==
    /\ fn_call' = [op |-> "rewrite_query_with_history", query |-> query,
                   retrieved_chunks |-> <<>>, history |-> conversation]
    /\ fn_result' = rewrite_query_with_history(query, conversation)

(***************************************************************************)
(* chat.py: get_history.                                                   *)
(***************************************************************************)
\* Mutant of GetHistoryAliases: get_history returns the live list.
GetHistoryAliases_Live == TRUE

\* Whether the list get_history returns is the object the agent keeps
\* appending to: it is not, list.copy() makes a new list.
GetHistoryAliases == FALSE

\* get_history().
GetHistory ==
    /\ snapshot' = conversation_history
    /\ snapAliased' = GetHistoryAliases
    /\ call' = [op |-> "get_history", outcome |-> "returned", error |-> "none",
                query |-> <<>>,
                standalone |-> <<>>, answer |-> NoAnswer, trace |-> <<>>]
    /\ UNCHANGED <<api_key, genInitFailed, fallback_mode, model, top_k,
                   conversation_history>>

\* The caller changes the list it got from get_history: it removes the
\* last turn (pop) or all of them (clear). The agent's list changes with it
\* exactly if it is the same object.
ChangeSnapshot ==
    /\ snapshot # <<>>
    /\ \E kept \in {0, Len(snapshot) - 1} : snapshot' = SubSeq(snapshot, 1, kept)
    /\ conversation_history' = IF snapAliased THEN snapshot' ELSE conversation_history
    /\ UNCHANGED <<api_key, genInitFailed, fallback_mode, model, top_k, call,
                   snapAliased>>

(***************************************************************************)
(* Specifications.                                                         *)
(***************************************************************************)
\* No module-level function has been applied, no thread is running.
FnIdle == fn_call = [op |-> "none"] /\ fn_result = [op |-> "none"]
ThreadsIdle ==
    /\ b_pc = "idle"
    /\ r_pc = "idle"
    /\ r_call = [op |-> "none"]
    /\ r_obs = [op |-> "none"]

\* The chunker on its own: any configuration the constructor accepts.
InitIngest ==
    /\ \E size \in 1..MaxSize, overlap \in 0..MaxSize : IngestorInit(size, overlap)
    /\ IngestIdle
    /\ RetrieverInit
    /\ disk = [index |-> Absent, chunks |-> Absent]
    /\ AgentInit(FALSE, TRUE, 1)
    /\ FnIdle /\ ThreadsIdle

NextIngest ==
    \/ \E raw \in RawDocs : IngestPdf(raw) /\ UNCHANGED <<retrieverVars, agentVars, fnVars, threadVars>>
    \/ \E t \in Texts, sid \in 0..MaxStartId :
           ChunkTextDirect(t, 1, sid) /\ UNCHANGED <<retrieverVars, agentVars, fnVars, threadVars>>
    \/ IngestPage /\ UNCHANGED <<retrieverVars, agentVars, fnVars, threadVars>>
    \/ ChunkTextStep /\ UNCHANGED <<retrieverVars, agentVars, fnVars, threadVars>>
    \/ ChunkTextReturn /\ UNCHANGED <<retrieverVars, agentVars, fnVars, threadVars>>
    \/ IngestReturn /\ UNCHANGED <<retrieverVars, agentVars, fnVars, threadVars>>

SpecIngest == InitIngest /\ [][NextIngest]_vars

\* The chunker configured with chunk_size 100 and chunk_overlap 20, on a
\* document of one page of 250 characters. The pages tried are "a"
\* everywhere but for one run of blanks between two of the cuts, so that a
\* window can be all blank, blank at an end, or blank in the middle.
ScenarioCuts == {0, 80, 100, 160, 180, 240, 250}
ScenarioText(lo, hi) == [i \in 1..250 |-> IF lo < i /\ i <= hi THEN " " ELSE "a"]
ScenarioTexts ==
    {ScenarioText(c[1], c[2]) : c \in {d \in ScenarioCuts \X ScenarioCuts : d[1] <= d[2]}}

InitScenario ==
    /\ IngestorInit(100, 20)
    /\ IngestIdle
    /\ RetrieverInit
    /\ disk = [index |-> Absent, chunks |-> Absent]
    /\ AgentInit(FALSE, TRUE, 1)
    /\ FnIdle /\ ThreadsIdle

NextScenario ==
    \/ \E t \in ScenarioTexts :
           IngestPdf(<<t>>) /\ UNCHANGED <<retrieverVars, agentVars, fnVars, threadVars>>
    \/ IngestPage /\ UNCHANGED <<retrieverVars, agentVars, fnVars, threadVars>>
    \/ ChunkTextStep /\ UNCHANGED <<retrieverVars, agentVars, fnVars, threadVars>>
    \/ ChunkTextReturn /\ UNCHANGED <<retrieverVars, agentVars, fnVars, threadVars>>
    \/ IngestReturn /\ UNCHANGED <<retrieverVars, agentVars, fnVars, threadVars>>

SpecScenario == InitScenario /\ [][NextScenario]_vars

\* One retriever and the directory it saves to and loads from.
InitRetriever ==
    /\ IngestorInit(DefaultChunkSize, DefaultChunkOverlap)
    /\ IngestIdle
    /\ RetrieverInit
    /\ disk \in DiskStates
    /\ AgentInit(FALSE, TRUE, 1)
    /\ FnIdle /\ ThreadsIdle

NextRetriever ==
    \/ \E cs \in ChunkLists, embedOk \in BOOLEAN :
           BuildIndex(cs, embedOk) /\ UNCHANGED <<ingestVars, agentVars, fnVars, threadVars>>
    \/ \E q \in Queries, k \in 1..MaxTopK, embedOk \in BOOLEAN :
           Retrieve(q, k, embedOk) /\ UNCHANGED <<ingestVars, agentVars, fnVars, threadVars>>
    \/ SaveIndex /\ UNCHANGED <<ingestVars, agentVars, fnVars, threadVars>>
    \/ LoadIndex /\ UNCHANGED <<ingestVars, agentVars, fnVars, threadVars>>

SpecRetriever == InitRetriever /\ [][NextRetriever]_vars

\* One agent, constructed in any of its modes, over a retriever that is
\* built (or fails to be built) from a two-chunk document.
AgentDoc == DocChunks(ChunkTextA, ChunkTextB, 2)
AgentTopKs == {1, 3}

InitAgent ==
    /\ IngestorInit(DefaultChunkSize, DefaultChunkOverlap)
    /\ IngestIdle
    /\ RetrieverInit
    /\ disk = [index |-> Absent, chunks |-> Absent]
    /\ \E hasKey \in BOOLEAN, initOk \in BOOLEAN, k \in AgentTopKs :
           AgentInit(hasKey, initOk, k)
    /\ FnIdle /\ ThreadsIdle

NextAgent ==
    \/ \E embedOk \in BOOLEAN :
           BuildIndex(AgentDoc, embedOk) /\ UNCHANGED <<ingestVars, agentVars, fnVars, threadVars>>
    \/ \E q \in Queries, rw \in GenOutcomes, ans \in GenOutcomes, embedOk \in BOOLEAN :
           AnswerQuery(q, rw, ans, embedOk) /\ UNCHANGED <<ingestVars, retrieverVars, fnVars, threadVars>>
    \/ ResetHistory /\ UNCHANGED <<ingestVars, retrieverVars, fnVars, threadVars>>

SpecAgent == InitAgent /\ [][NextAgent]_vars

\* One agent and a caller that keeps the list of its last get_history call.
HistoryQueries == {QPronoun}

InitHistory ==
    /\ IngestorInit(DefaultChunkSize, DefaultChunkOverlap)
    /\ IngestIdle
    /\ RetrieverInit
    /\ disk = [index |-> Absent, chunks |-> Absent]
    /\ \E hasKey \in BOOLEAN : AgentInit(hasKey, TRUE, 1)
    /\ FnIdle /\ ThreadsIdle

NextHistory ==
    \/ BuildIndex(AgentDoc, TRUE) /\ UNCHANGED <<ingestVars, agentVars, fnVars, threadVars>>
    \/ \E q \in HistoryQueries, rw \in GenOutcomes, ans \in GenOutcomes :
           AnswerQuery(q, rw, ans, TRUE) /\ UNCHANGED <<ingestVars, retrieverVars, fnVars, threadVars>>
    \/ GetHistory /\ UNCHANGED <<ingestVars, retrieverVars, fnVars, threadVars>>
    \/ ChangeSnapshot /\ UNCHANGED <<ingestVars, retrieverVars, fnVars, threadVars>>
    \/ ResetHistory /\ UNCHANGED <<ingestVars, retrieverVars, fnVars, threadVars>>

SpecHistory == InitHistory /\ [][NextHistory]_vars

\* The response classifiers applied to generated responses.
InitValidate ==
    /\ IngestorInit(DefaultChunkSize, DefaultChunkOverlap)
    /\ IngestIdle
    /\ RetrieverInit
    /\ disk = [index |-> Absent, chunks |-> Absent]
    /\ AgentInit(FALSE, TRUE, 1)
    /\ FnIdle /\ ThreadsIdle

NextValidate ==
    \/ \E response \in Responses :
           ValidateResponseFormat(response)
               /\ UNCHANGED <<ingestVars, retrieverVars, agentVars, threadVars>>
    \/ \E response \in Responses :
           IsNotFoundResponse(response)
               /\ UNCHANGED <<ingestVars, retrieverVars, agentVars, threadVars>>

SpecValidate == InitValidate /\ [][NextValidate]_vars

\* Citation tokens rendered and parsed back.
InitCitations ==
    /\ IngestorInit(DefaultChunkSize, DefaultChunkOverlap)
    /\ IngestIdle
    /\ RetrieverInit
    /\ disk = [index |-> Absent, chunks |-> Absent]
    /\ AgentInit(FALSE, TRUE, 1)
    /\ FnIdle /\ ThreadsIdle

NextCitations ==
    \E cs \in CitedLists, sep \in Separators :
        ParseRendered(cs, sep)
            /\ UNCHANGED <<ingestVars, retrieverVars, agentVars, threadVars>>

SpecCitations == InitCitations /\ [][NextCitations]_vars

\* One retriever shared by a thread that builds and a thread that
\* retrieves, with no lock between them.
ThreadQueries == {QShort, QPronoun}

InitThreads ==
    /\ IngestorInit(DefaultChunkSize, DefaultChunkOverlap)
    /\ IngestIdle
    /\ RetrieverInit
    /\ disk = [index |-> Absent, chunks |-> Absent]
    /\ AgentInit(FALSE, TRUE, 1)
    /\ FnIdle /\ ThreadsIdle

NextThreads ==
    \/ \E cs \in ChunkLists :
           BuildStart(cs) /\ UNCHANGED <<ingestVars, agentVars, fnVars>>
    \/ BuildCreate /\ UNCHANGED <<ingestVars, agentVars, fnVars>>
    \/ BuildAdd /\ UNCHANGED <<ingestVars, agentVars, fnVars>>
    \/ \E q \in ThreadQueries, k \in {1, MaxTopK} :
           RetrieveSearch(q, k) /\ UNCHANGED <<ingestVars, agentVars, fnVars>>
    \/ RetrieveCollect /\ UNCHANGED <<ingestVars, agentVars, fnVars>>

SpecThreads == InitThreads /\ [][NextThreads]_vars

\* The prompt builders applied to histories of up to MaxTurns turns.
InitPrompts ==
    /\ IngestorInit(DefaultChunkSize, DefaultChunkOverlap)
    /\ IngestIdle
    /\ RetrieverInit
    /\ disk = [index |-> Absent, chunks |-> Absent]
    /\ AgentInit(FALSE, TRUE, 1)
    /\ FnIdle /\ ThreadsIdle

NextPrompts ==
    \/ \E q \in PromptQueries, rc \in RetrievedLists, h \in Histories :
           BuildGroundedPrompt(q, rc, h)
               /\ UNCHANGED <<ingestVars, retrieverVars, agentVars, threadVars>>
    \/ \E q \in PromptQueries, h \in Histories :
           RewriteQueryWithHistory(q, h)
               /\ UNCHANGED <<ingestVars, retrieverVars, agentVars, threadVars>>

SpecPrompts == InitPrompts /\ [][NextPrompts]_vars

(***************************************************************************)
(* Properties.                                                             *)
(***************************************************************************)
ValidChunking == chunk_size > chunk_overlap /\ chunk_overlap >= 0
TraceHas(e) == \E i \in 1..Len(call.trace) : call.trace[i] = e
CallsGenerator == TraceHas("generate:rewrite") \/ TraceHas("generate:answer")
RetrievalErrors == {"NotBuilt", "EmbedError", "IndexError"}
AgentStep == agentVars' # agentVars

\* C1: on a built index holding n chunks, a retrieve(query, top_k) that
\* returns gives exactly min(top_k, n) pairs, also when the vector store
\* pads missing neighbours with the label -1.
C1_RetrieveCount ==
    (/\ rop.op = "retrieve" /\ rop.outcome = "ok"
     /\ index.present /\ ntotal(index) = Len(chunks))
    => Len(rop.results) = Min(rop.top_k, Len(chunks))

\* C2: in every reachable state of the retriever, failed calls included,
\* the number of chunks held equals the number of stored vectors and the
\* vector at position i is the embedding of chunks[i].
C2_ChunksAlignedWithVectors ==
    /\ Len(chunks) = ntotal(index)
    /\ \A i \in 1..Len(chunks) :
           i <= ntotal(index) /\ index.vectors[i] = Embed(chunks[i].text)

\* C3: while no build_index or load_index call has completed successfully,
\* every retrieve call (whose embedder works) fails with the
\* index-not-built error, also after a build or load that raised.
C3_RetrieveBeforeBuildFails ==
    (rop.op = "retrieve" /\ ~everBuilt /\ rop.outcome # "EmbedError")
    => rop.outcome = "NotBuilt"

\* C4: chunk_text terminates for every configuration the constructor
\* accepts: the window start advances by at least one character per
\* iteration, so the loop runs at most len(text) times.
C4_ChunkTextTerminates ==
    ing_pc = "loop" => iters <= Len(text)

\* C5: every answer_query call that returns appends exactly one turn
\* (user_query, answer) to the end of the history, user_query being the
\* caller's query and answer the value returned, whatever path produced it.
C5_TurnAppended ==
    [][(AgentStep /\ call'.op = "answer_query" /\ call'.outcome = "returned")
       => conversation_history' =
              Append(conversation_history, <<call'.query, call'.answer>>)]_vars

\* C5 witness: a call on a generating agent whose query was rewritten and
\* whose answer call failed has returned the fallback rendering and its
\* turn is the second of the history.
C5_Witness ==
    /\ call.op = "answer_query" /\ call.outcome = "returned"
    /\ ~fallback_mode
    /\ call.standalone # call.query
    /\ call.answer.kind = "fallback"
    /\ Len(conversation_history) = 2
    /\ conversation_history[2] = <<call.query, call.answer>>

\* C6: answer_query raises only when retrieval raises; no generator
\* failure (absent, failed at construction, raising in the rewrite call or
\* in the answer call) makes it raise.
C6_NoGeneratorRaise ==
    (call.op = "answer_query" /\ call.outcome = "raised")
    => call.error \in RetrievalErrors

\* C6 witness: the generator raised in the rewrite call and again in the
\* answer call, and the call returned the fallback rendering.
C6_Witness ==
    /\ call.op = "answer_query" /\ call.outcome = "returned"
    /\ TraceHas("generate:rewrite") /\ TraceHas("rewrite_failed")
    /\ TraceHas("generate:answer")
    /\ call.answer.kind = "fallback"

\* C7 as claimed: an agent in fallback mode never calls the generator and
\* its answer_query never raises.
C7_FallbackNeverRaises ==
    (fallback_mode /\ call.op = "answer_query")
    => (~CallsGenerator /\ call.outcome = "returned")

\* C7 as amended: an agent in fallback mode never calls the generator, and
\* its answer_query raises only when the retriever's retrieve raises.
C7_FallbackNoGenerator ==
    (fallback_mode /\ call.op = "answer_query")
    => /\ ~CallsGenerator
       /\ call.outcome = "raised" => call.error \in RetrievalErrors
       /\ call.outcome = "returned" => call.answer.kind \in {"fallback", "fallback_none"}

\* C7 witness: an agent whose generator failed to initialise has answered a
\* follow-up query that the rewrite heuristic selects.
C7_Witness ==
    /\ genInitFailed /\ fallback_mode
    /\ call.op = "answer_query" /\ call.outcome = "returned"
    /\ Len(conversation_history) = 2
    /\ needs_rewrite(call.query)

\* C8: the mode is fixed at construction: no call changes fallback_mode or
\* the generator, a generating agent asks the generator for the answer in
\* every call that gets past retrieval, and an agent whose generator
\* failed to initialise is in fallback mode throughout.
C8_ModeFixed ==
    /\ [][fallback_mode' = fallback_mode /\ model' = model]_vars
    /\ [](genInitFailed => fallback_mode)
    /\ []((~fallback_mode /\ call.op = "answer_query" /\ call.outcome = "returned")
          => TraceHas("generate:answer"))

\* C8 witness: on a generating agent the first call degraded to the
\* fallback rendering and the next call got a generated answer.
C8_Witness ==
    /\ ~fallback_mode
    /\ Len(conversation_history) = 2
    /\ conversation_history[1][2].kind = "fallback"
    /\ call.op = "answer_query" /\ call.outcome = "returned"
    /\ call.answer.kind = "generated"

\* C9: for chunk_size > chunk_overlap >= 0 the ids chunk_text assigns are
\* start_chunk_id, start_chunk_id + 1, ... in output order (a dropped
\* window consumes none), and the ids of ingest_pdf's output are 0..n-1.
C9_DenseChunkIds ==
    ValidChunking =>
        /\ \A i \in 1..Len(ct_chunks) : ct_chunks[i].chunk_id = start_chunk_id + i - 1
        /\ ct_chunk_id = start_chunk_id + Len(ct_chunks)
        /\ \A i \in 1..Len(all_chunks) : all_chunks[i].chunk_id = i - 1
        /\ chunk_id = Len(all_chunks)

\* C9 witness: ingest_pdf has returned three or more chunks from two pages,
\* and chunk_text dropped a window of the second page.
C9_Witness ==
    /\ ValidChunking
    /\ ing_pc = "done" /\ caller = "ingest_pdf"
    /\ Len(pages) = 2 /\ Len(all_chunks) >= 3
    /\ iters > Len(ct_chunks)
    /\ start_chunk_id > 0

\* C10: for chunk_size > chunk_overlap >= 0, once chunk_text's loop has
\* ended every non-whitespace position of the text lies in the window of a
\* returned chunk, and every returned chunk's text is non-empty and trimmed.
C10_CoverageAndTrimmed ==
    (ValidChunking /\ ing_pc # "idle" /\ ~(start < Len(text))) =>
        /\ \A p \in 1..Len(text) :
               text[p] \notin Whitespace =>
                   \E i \in 1..Len(ct_chunks) :
                       /\ windows[i] < p /\ p <= windows[i] + chunk_size
                       /\ ct_chunks[i].text =
                              Strip(PySlice(text, windows[i], windows[i] + chunk_size))
        /\ \A i \in 1..Len(ct_chunks) :
               /\ ct_chunks[i].text # <<>>
               /\ ct_chunks[i].text[1] \notin Whitespace
               /\ ct_chunks[i].text[Len(ct_chunks[i].text)] \notin Whitespace

\* C10 witness: chunk_text has returned overlapping chunks of a three
\* character text that starts with a blank, so a window was trimmed.
C10_Witness ==
    /\ ValidChunking /\ chunk_overlap >= 1
    /\ ing_pc = "done" /\ caller = "direct"
    /\ Len(text) = 3 /\ text[1] \in Whitespace
    /\ Len(ct_chunks) >= 2

\* C11 as stated: with chunk_size 100 and chunk_overlap 20, ingesting a
\* document of one page whose text has 250 characters yields exactly 4
\* chunks, with ids 0, 1, 2, 3, cut at the window starts 0, 80, 160, 240.
ScenarioDone ==
    /\ ing_pc = "done"
    /\ chunk_size = 100 /\ chunk_overlap = 20
    /\ Len(text) = 250
FourChunks ==
    /\ Len(all_chunks) = 4
    /\ \A i \in 1..4 : all_chunks[i].chunk_id = i - 1
    /\ windows = <<0, 80, 160, 240>>
C11_FourChunks == ScenarioDone => FourChunks

\* C11 amended: the same, for a page that has a character other than
\* whitespace in each of the four windows [0,100), [80,180), [160,250) and
\* [240,250); the chunk of window i is the stripped text of that window.
EveryWindowHasText ==
    \A w \in {0, 80, 160, 240} : Strip(PySlice(text, w, w + 100)) # <<>>
C11_FourChunksOfText ==
    (ScenarioDone /\ EveryWindowHasText) =>
        /\ FourChunks
        /\ \A i \in 1..4 :
               all_chunks[i].text = Strip(PySlice(text, windows[i], windows[i] + 100))
C11_Witness ==
    /\ ScenarioDone /\ EveryWindowHasText /\ FourChunks
    /\ \E p \in 1..250 : text[p] \in Whitespace

\* C12: the query answer_query hands to retrieval differs from the user's
\* query only when the history was non-empty, the heuristic triggered
\* (fewer than 5 whitespace-separated tokens, or a whole token that is,
\* ignoring case, one of the nine pronouns) and the rewrite call
\* succeeded; with an empty history or an untriggered heuristic no rewrite
\* call is made at all.
HeuristicTriggered(query) ==
    LET tokens == Split(query)
    IN  \/ Len(tokens) < 5
        \/ \E i \in 1..Len(tokens) : Lower(tokens[i]) \in pronouns
C12_RewriteOnlyWhenNeeded ==
    [][(AgentStep /\ call'.op = "answer_query") =>
        LET rewriteCalled == \E i \in 1..Len(call'.trace) : call'.trace[i] = "generate:rewrite"
            rewriteFailed == \E i \in 1..Len(call'.trace) : call'.trace[i] = "rewrite_failed"
        IN  /\ (call'.standalone # call'.query) =>
                   /\ conversation_history # <<>>
                   /\ HeuristicTriggered(call'.query)
                   /\ rewriteCalled /\ ~rewriteFailed
            /\ (conversation_history = <<>> \/ ~HeuristicTriggered(call'.query)) =>
                   ~rewriteCalled
            /\ (fallback_mode \/ rewriteFailed) => call'.standalone = call'.query]_vars
C12_Witness ==
    /\ call.op = "answer_query"
    /\ call.query = QPronoun
    /\ call.standalone # call.query
    /\ call.trace[1] = "generate:rewrite"

\* C13: over any sequence of answer_query, get_history and reset_history
\* calls the history changes only by one turn appended at its end, or by
\* reset_history emptying it; get_history returns the turns held at that
\* moment as a copy: no step changes both the history and the list a
\* caller holds, whether the caller edits its list or the agent answers
\* or resets later.
C13_AppendOnlyAndCopied ==
    [][/\ (conversation_history' # conversation_history) =>
            \/ /\ call'.op = "reset_history"
               /\ conversation_history' = <<>>
            \/ /\ call'.op = "answer_query"
               /\ Len(conversation_history') = Len(conversation_history) + 1
               /\ SubSeq(conversation_history', 1, Len(conversation_history))
                      = conversation_history
       /\ (call'.op = "get_history" /\ call.op # "get_history") =>
            snapshot' = conversation_history
       /\ ~(conversation_history' # conversation_history /\ snapshot' # snapshot)]_vars
C13_Witness ==
    /\ call.op = "answer_query"
    /\ Len(snapshot) = 1
    /\ Len(conversation_history) = 2
    /\ snapshot[1] = conversation_history[1]

\* C14: validate_response_format reports a response valid exactly if it
\* is a refusal (ignoring case, it contains one of the four refusal
\* phrases) or holds all three of Answer:, Citations: and Evidence:, and
\* its is_not_found flag equals is_not_found_response of the response.
RefusalPhrases ==
    {PhraseNotFound, PhraseNotMentioned, PhraseDoesNotContain, PhraseNotAvailable}
IsRefusal(response) == \E phrase \in RefusalPhrases : Contains(Lower(response), phrase)
C14_ValidatorAgrees ==
    (fn_call.op = "validate_response_format") =>
        LET response == fn_call.response
        IN  /\ fn_result.valid =
                   (\/ IsRefusal(response)
                    \/ /\ fn_result.has_answer_section
                       /\ fn_result.has_citations_section
                       /\ fn_result.has_evidence_section)
            /\ fn_result.is_not_found = is_not_found_response(response)

\* C15: parsing the citation token of a chunk with page_number >= 1 and
\* chunk_id >= 0 gives exactly one citation, which names that page and that
\* id; parsing a response of several tokens gives one citation per token,
\* in the order of the tokens, a repeated token as often as it appears.
RECURSIVE DecimalValue(_)
DecimalValue(ds) ==
    IF ds = <<>> THEN 0
    ELSE 10 * DecimalValue(SubSeq(ds, 1, Len(ds) - 1))
            + (CHOOSE d \in 0..9 : DecimalDigits[d + 1] = ds[Len(ds)])
CitationNames(citation, chunk) ==
    \E k \in 3..(Len(citation) - 2) :
        /\ citation[1] = "p"
        /\ citation[k] = ":" /\ citation[k + 1] = "c"
        /\ \A j \in (2..(k - 1)) \cup ((k + 2)..Len(citation)) : IsDigit(citation[j])
        /\ DecimalValue(SubSeq(citation, 2, k - 1)) = chunk.page_number
        /\ DecimalValue(SubSeq(citation, k + 2, Len(citation))) = chunk.chunk_id
C15_CitationRoundTrip ==
    (fn_call.op = "parse_response_for_citations") =>
        /\ Len(fn_result) = Len(fn_call.chunks)
        /\ \A n \in 1..Len(fn_result) : CitationNames(fn_result[n], fn_call.chunks[n])
C15_Witness ==
    /\ fn_call.op = "parse_response_for_citations"
    /\ Len(fn_call.chunks) = 3
    /\ fn_call.chunks[1] = fn_call.chunks[3]
    /\ fn_call.chunks[1] # fn_call.chunks[2]
    /\ fn_call.chunks[1].page_number >= 10
    /\ Len(fn_result) = 3
    /\ fn_result[1] = fn_result[3]

\* C16: a load_index call on a directory that lacks faiss.index or
\* chunks.pkl fails with FileNotFoundError and leaves both self.index and
\* self.chunks exactly as they were before the call.
C16_LoadIndexAtomic ==
    [][(rop'.op = "load_index" /\ (~disk.index.exists \/ ~disk.chunks.exists)) =>
          /\ rop'.outcome = "FileNotFoundError"
          /\ index' = index
          /\ chunks' = chunks]_vars

\* C17: when build_index runs on a retriever that already holds an index
\* and retrieve runs interleaved with it, a retrieve that returns has read
\* a chunk list and a vector store that belong together: the vectors it
\* searched are those of the chunks it returns from, never the old
\* vectors with the new chunks.
C17_NoMixedObservation ==
    (r_obs.op = "retrieve" /\ r_obs.outcome = "ok" /\ r_obs.vectors # <<>>) =>
        r_obs.vectors = EmbedAll(r_obs.chunks)

\* C18: within one answer_query the generator is called at most once to
\* rewrite and at most once to answer, the rewrite call before retrieval
\* and the answer call after it; an answer call that fails is followed by
\* the fallback rendering and by no further generator call.
Positions(e) == {i \in 1..Len(call.trace) : call.trace[i] = e}
C18_OneCallPerPurpose ==
    (call.op = "answer_query") =>
        /\ Cardinality(Positions("generate:rewrite")) <= 1
        /\ Cardinality(Positions("generate:answer")) <= 1
        /\ Cardinality(Positions("retrieve")) <= 1
        /\ \A g \in Positions("generate:rewrite"), r \in Positions("retrieve") : g < r
        /\ \A g \in Positions("generate:answer") :
               \E r \in Positions("retrieve") : r < g
        /\ \A f \in Positions("fallback") : f = Len(call.trace)
        /\ (/\ call.outcome = "returned"
            /\ Positions("generate:answer") # {}
            /\ call.answer.kind # "generated") =>
               Positions("fallback") # {}
C18_Witness ==
    /\ call.op = "answer_query"
    /\ call.outcome = "returned"
    /\ call.trace = <<"generate:rewrite", "retrieve", "generate:answer", "fallback">>

\* C20: when answer_query raises because retrieval failed, the history and
\* the mode are exactly as before the call: no turn was appended, also
\* after a rewrite call that had succeeded.
C20_RaiseLeavesState ==
    [][(/\ AgentStep
        /\ call'.op = "answer_query"
        /\ call'.outcome = "raised"
        /\ call'.error \in RetrievalErrors) =>
          /\ conversation_history' = conversation_history
          /\ fallback_mode' = fallback_mode
          /\ model' = model]_vars
C20_Witness ==
    /\ call.op = "answer_query"
    /\ call.outcome = "raised"
    /\ call.error \in RetrievalErrors
    /\ call.trace = <<"generate:rewrite", "retrieve">>
    /\ call.standalone # call.query
    /\ Len(conversation_history) = 1

\* C19: the rewrite prompt is a function of the last 2 turns of the
\* history and the grounding prompt of the last 3: any other history that
\* agrees with the one given on its last 2 (respectively 3) turns yields
\* the same prompt for the same query and retrieved chunks.
LastTurns(h, n) == SubSeq(h, Len(h) - Min(n, Len(h)) + 1, Len(h))
C19_BoundedWindow ==
    /\ (fn_call.op = "rewrite_query_with_history") =>
           \A other \in Histories :
               (LastTurns(other, 2) = LastTurns(fn_call.history, 2)) =>
                   rewrite_query_with_history(fn_call.query, other) = fn_result
    /\ (fn_call.op = "build_grounded_prompt") =>
           \A other \in Histories :
               (LastTurns(other, 3) = LastTurns(fn_call.history, 3)) =>
                   build_grounded_prompt(fn_call.query, fn_call.retrieved_chunks, other)
                       = fn_result
C19_Witness ==
    /\ fn_call.op = "build_grounded_prompt"
    /\ Len(fn_call.history) = 4
    /\ \E other \in Histories :
           /\ Len(other) = 4
           /\ other[1] # fn_call.history[1]
           /\ LastTurns(other, 3) = LastTurns(fn_call.history, 3)
           /\ build_grounded_prompt(fn_call.query, fn_call.retrieved_chunks, other)
                  = fn_result
    /\ \E n \in 1..Len(fn_result) : fn_result[n] = Msg(fn_call.history[2][2])
====
